---- MODULE Spec2Model ----
(***************************************************************************)
(* ShadowDomKit: the shadow-boundary-crossing element locator              *)
(* (findElementById, findElementsBySelector) and the delayed component     *)
(* dispatcher (initComponent, registerComponentType) of                    *)
(* src/ShadowDomKit.js, over a page whose trees are owned by the browser.  *)
(***************************************************************************)
EXTENDS Integers, Sequences, FiniteSets, TLC

(***************************************************************************)
(* Bounds of the model.                                                    *)
(***************************************************************************)
\* Elements a page of the locator specification may hold.
MaxElems == 3
\* Elements the page of the dispatcher specification may hold.
MaxPageElems == 2
\* initComponent requests that may be outstanding together.
MaxRequests == 1
\* Milliseconds that pass in one step of the clock.
TimeStep == 100
\* Requests outstanding together in the specification of concurrent requests.
MaxPairRequests == 2
\* Elements of the pages on which the same id is searched at several depths;
\* no page of the model holds more.
MaxDeepElems == 5

(***************************************************************************)
(* The page: a document and the shadow trees attached to its elements.     *)
(* Elements are numbered in document order inside the tree that holds      *)
(* them, and a host is numbered before the content of its shadow tree.     *)
(* A tree is named by 0 (the document) or by the number of its host.       *)
(***************************************************************************)
Elems    == 1..MaxDeepElems
Document == 0
NoNode   == -1
Roots    == {Document} \cup Elems

\* "" is an element without an id attribute.
ElemIds  == {"", "a"}
Tags     == {"div", "p"}
Modes    == {"none", "open", "closed"}

\* The value JavaScript calls undefined, for a field holding a string.
UNDEF    == "<undefined>"

VARIABLES
    dom,        \* dom[e]: the tree holding element e, its id, tag and shadow mode
    search,     \* the last direct call of a find method, and what it returned
    kit,        \* the instance: its options
    registry,   \* this._initCallbacks: the entries registerComponentType put there
    registration, \* the last call of registerComponentType, and how it ended
    req,        \* req[r]: one initComponent request: config, timer, promise
    trace       \* trace[r]: what the timer callback of request r did

vars == <<dom, search, kit, registry, registration, req, trace>>

Absent == [root |-> NoNode, id |-> "", tag |-> "", shadow |-> "none"]

Present(e) == dom[e].root # NoNode

Count == Cardinality({e \in Elems : Present(e)})

RECURSIVE SeqOfSet(_)
\* The elements of a set of numbers as a sequence in increasing order.
SeqOfSet(S) ==
    IF S = {} THEN <<>>
    ELSE LET m == CHOOSE x \in S : \A y \in S : x <= y
         IN  <<m>> \o SeqOfSet(S \ {m})

\* The elements a tree holds, in document order.
ElementsOf(root) == SeqOfSet({e \in Elems : Present(e) /\ dom[e].root = root})

\* The ids of the model that are CSS identifiers: "#" in front of one is the
\* id selector for it.  An id attribute may hold any text without a space;
\* "#" in front of "a.b" is the compound selector id "a" with class "b".
Identifiers == {"a", "b"}

\* element.matches(selector) for the selectors of the model: the universal
\* selector, an id selector, a type selector.  No element of the model carries
\* a class, so a compound naming one, "#a.b", matches nothing.
Matches(e, selector) ==
    \/ selector = "*"
    \/ \E i \in Identifiers : selector = "#" \o i /\ dom[e].id = i
    \/ selector = dom[e].tag

\* root.querySelectorAll(selector): the matches inside one tree, in document
\* order; never the content of a shadow tree attached below.
QuerySelectorAll(root, selector) ==
    SelectSeq(ElementsOf(root), LAMBDA e : Matches(e, selector))

\* root.getElementById(id): the first element of the tree with that id, or null.
GetElementById(root, id) ==
    LET hits == SelectSeq(ElementsOf(root), LAMBDA e : id # "" /\ dom[e].id = id)
    IN  IF hits = <<>> THEN NoNode ELSE hits[1]

\* A mutation of ShadowRootOf: closed trees are handed out as well.
ShadowRootOfAnyMode(node) ==
    IF dom[node].shadow # "none" THEN node ELSE NoNode

\* node.shadowRoot: the shadow tree of an open host, null for a closed one and
\* for an element that hosts nothing.
ShadowRootOf(node) ==
    IF dom[node].shadow = "open" THEN node ELSE NoNode

(***************************************************************************)
(* The locator.                                                            *)
(***************************************************************************)
Null == [element |-> NoNode, context |-> NoNode]

LocateResult(element, context) == [element |-> element, context |-> context]

\* A mutation of NodesById: only the first element of the tree is examined.
NodesByIdFirstOnly(root) ==
    LET all == QuerySelectorAll(root, "*")
    IN  IF all = <<>> THEN <<>> ELSE <<all[1]>>

\* The nodes _findInShadowDOM walks looking for shadow hosts.
NodesById(root) == QuerySelectorAll(root, "*")

RECURSIVE FindInShadowDOM(_, _)
RECURSIVE FindInHosts(_, _, _)

\* The loop of _findInShadowDOM over the nodes, from position i on.
FindInHosts(elementId, nodes, i) ==
    IF i > Len(nodes) THEN Null
    ELSE LET node == nodes[i]
             sr   == ShadowRootOf(node)
         IN  IF sr # NoNode
             THEN LET found == GetElementById(sr, elementId)
                  IN  IF found # NoNode
                      THEN LocateResult(found, sr)
                      ELSE LET nestedFound == FindInShadowDOM(elementId, sr)
                           IN  IF nestedFound # Null
                               THEN nestedFound
                               ELSE FindInHosts(elementId, nodes, i + 1)
             ELSE FindInHosts(elementId, nodes, i + 1)

\* A mutation of FindInShadowDOM: the shadow trees of all hosts of the tree
\* are tried before anything nested in one of them.
FindInShadowDOMShallowFirst(elementId, root) ==
    LET directMatch == GetElementById(root, elementId)
        nodes   == NodesById(root)
        shallow == SelectSeq(nodes, LAMBDA n :
                       /\ ShadowRootOf(n) # NoNode
                       /\ GetElementById(ShadowRootOf(n), elementId) # NoNode)
    IN  IF directMatch # NoNode
        THEN LocateResult(directMatch, root)
        ELSE IF shallow # <<>>
        THEN LocateResult(GetElementById(ShadowRootOf(shallow[1]), elementId),
                          ShadowRootOf(shallow[1]))
        ELSE FindInHosts(elementId, nodes, 1)

FindInShadowDOM(elementId, root) ==
    LET directMatch == GetElementById(root, elementId)
    IN  IF directMatch # NoNode
        THEN LocateResult(directMatch, root)
        ELSE FindInHosts(elementId, NodesById(root), 1)

FindElementById(elementId, root) == FindInShadowDOM(elementId, root)

\* The entries _findAllInShadowDOM pushes for the direct matches of one tree.
DirectMatches(selector, root) ==
    LET m == QuerySelectorAll(root, selector)
    IN  [k \in 1..Len(m) |-> LocateResult(m[k], root)]

\* A mutation of HostsToEnter: only hosts that match the selector themselves.
HostsToEnterMatching(selector, root) ==
    SelectSeq(QuerySelectorAll(root, selector), LAMBDA n : ShadowRootOf(n) # NoNode)

\* The nodes of a tree whose shadow tree _findAllInShadowDOM enters, in order.
HostsToEnter(selector, root) ==
    SelectSeq(QuerySelectorAll(root, "*"), LAMBDA n : ShadowRootOf(n) # NoNode)

RECURSIVE FindAllInShadowDOM(_, _, _)
RECURSIVE FindAllInHosts(_, _, _, _)

\* The loop of _findAllInShadowDOM over the shadow hosts, from position i on.
FindAllInHosts(selector, hosts, i, results) ==
    IF i > Len(hosts) THEN results
    ELSE FindAllInHosts(selector, hosts, i + 1,
             FindAllInShadowDOM(selector, ShadowRootOf(hosts[i]), results))

\* A mutation of FindAllInShadowDOM: the content of the shadow trees below is
\* listed before the direct matches of the tree.
FindAllInShadowDOMHostsFirst(selector, root, results) ==
    FindAllInHosts(selector, HostsToEnter(selector, root), 1, results)
        \o DirectMatches(selector, root)

\* results after _findAllInShadowDOM(selector, root, results).
FindAllInShadowDOM(selector, root, results) ==
    FindAllInHosts(selector, HostsToEnter(selector, root), 1,
                   results \o DirectMatches(selector, root))

FindElementsBySelector(selector, root) == FindAllInShadowDOM(selector, root, <<>>)

(***************************************************************************)
(* The page changes under the hands of its own scripts.                    *)
(***************************************************************************)
NoSearch == [op |-> "none", key |-> "", root |-> NoNode, one |-> Null, all |-> <<>>]

\* The trees content can be put into: the document and every attached shadow
\* tree (its creator holds the reference attachShadow returned, open or closed).
AttachedRoots == {Document} \cup {h \in Elems : Present(h) /\ dom[h].shadow # "none"}

\* A new element enters a tree, after the elements the tree already holds.
\* A locate result is transient: the caller has let go of the last one
\* before the page changes.
AppendElement(limit) ==
    /\ search = NoSearch
    /\ Count < limit
    /\ \E root \in AttachedRoots, id \in ElemIds, tag \in Tags :
          dom' = [dom EXCEPT ![Count + 1] =
                     [root |-> root, id |-> id, tag |-> tag, shadow |-> "none"]]
    /\ UNCHANGED <<search, kit, registry, registration, req, trace>>

\* host.attachShadow({mode}).
AttachShadow ==
    /\ search = NoSearch
    /\ \E h \in Elems, mode \in {"open", "closed"} :
          /\ Present(h)
          /\ dom[h].shadow = "none"
          /\ dom' = [dom EXCEPT ![h].shadow = mode]
    /\ UNCHANGED <<search, kit, registry, registration, req, trace>>

(***************************************************************************)
(* Direct calls of the two find methods.                                   *)
(***************************************************************************)
RECURSIVE OpenBelow(_)
\* The trees script reaches from a tree: itself, and the open shadow trees
\* of its elements, and so on down.
OpenBelow(root) ==
    {root} \cup UNION { OpenBelow(h) : h \in {e \in Elems :
                            Present(e) /\ dom[e].root = root /\ dom[e].shadow = "open"} }

\* The roots a caller can hand to a find method.
SearchRoots == OpenBelow(Document)

SearchIds == {"a", "b"}
Selectors == {"*", "p", "#a"}

CallFindElementById ==
    /\ search = NoSearch
    /\ \E elementId \in SearchIds, root \in SearchRoots :
          search' = [op |-> "byId", key |-> elementId, root |-> root,
                     one |-> FindElementById(elementId, root), all |-> <<>>]
    /\ UNCHANGED <<dom, kit, registry, registration, req, trace>>

CallFindElementsBySelector ==
    /\ search = NoSearch
    /\ \E selector \in Selectors, root \in SearchRoots :
          search' = [op |-> "bySelector", key |-> selector, root |-> root,
                     one |-> Null, all |-> FindElementsBySelector(selector, root)]
    /\ UNCHANGED <<dom, kit, registry, registration, req, trace>>

\* The ids asked for when both methods are called for the same id.
AgreeIds == {"a", "b", "a.b"}

\* A caller asks both methods for the same id in one task: findElementById
\* with the id, findElementsBySelector with "#" put in front of it.
CallBothFinds ==
    /\ search = NoSearch
    /\ \E elementId \in AgreeIds, root \in SearchRoots :
          search' = [op |-> "both", key |-> elementId, root |-> root,
                     one |-> FindElementById(elementId, root),
                     all |-> FindElementsBySelector("#" \o elementId, root)]
    /\ UNCHANGED <<dom, kit, registry, registration, req, trace>>

\* The caller lets go of the result: the locator keeps no reference to it.
ReleaseResult ==
    /\ search # NoSearch
    /\ search' = NoSearch
    /\ UNCHANGED <<dom, kit, registry, registration, req, trace>>

(***************************************************************************)
(* Values that travel through the dispatcher: what a handler returns or    *)
(* throws, the errors initComponent makes, null.                           *)
(***************************************************************************)
\* The value JavaScript calls undefined, for a field holding a number.
UndefNum == -1

\* Initializer functions a caller can write: one that returns the component
\* it built, one that throws.
Fns       == {"mkWidget", "mkBroken"}
Throwers  == {"mkBroken"}
\* A value that is no function.
NotAFunction == "not-a-function"

Value(tag, msg, fn, element, context, options) ==
    [tag |-> tag, msg |-> msg, fn |-> fn, element |-> element,
     context |-> context, options |-> options]

\* new Error(msg)
ErrorValue(msg) == Value("Error", msg, "", NoNode, NoNode, "")

NullValue == Value("null", "", "", NoNode, NoNode, "")

\* What calling handler f with (element, context, options) does: a handler
\* of Throwers throws, any other returns the component it built on its
\* arguments.
Apply(f, element, context, options) ==
    [threw |-> f \in Throwers,
     value |-> Value(IF f \in Throwers THEN "thrown" ELSE "instance", "", f,
                     element, context, options)]

Invocation(f, element, context, options) ==
    [fn |-> f, element |-> element, context |-> context, options |-> options]

\* The number 0, where a string may stand as well.
Zero == "<0>"
\* The function Array of the host: called with arguments it returns an array
\* of them.
ArrayFunction == "Array"

\* if (x): a value is truthy unless it is undefined, the empty string or 0.
Truthy(x) == x \notin {UNDEF, "", Zero}

\* typeof x === 'function'
IsFunction(x) == x \in Fns \cup {ArrayFunction}

(***************************************************************************)
(* The instance and its registry.                                          *)
(***************************************************************************)
DefaultSearchDelay == 300

\* constructor(options): options.searchDelay || 300, which the spread of
\* options that follows it overrides with any searchDelay the caller gave.
Constructor(searchDelay) ==
    LET fallback == IF searchDelay \in {UndefNum, 0}
                    THEN DefaultSearchDelay ELSE searchDelay
    IN  [searchDelay |-> IF searchDelay # UndefNum THEN searchDelay ELSE fallback,
         flowbite    |-> FALSE]

\* this._initCallbacks = []: the registry is an Array. Besides the entries put
\* there it answers to the properties every array has; of those the model
\* keeps "length" (a number, 0 as long as no entry is stored under an index)
\* and "constructor" (inherited from Array.prototype: the function Array).
ArrayProperties == {"length", "constructor"}
\* this._initCallbacks[name]
RegistryGet(name) ==
    IF name \in DOMAIN registry THEN registry[name]
    ELSE IF name = "length" THEN Zero
    ELSE IF name = "constructor" THEN ArrayFunction
    ELSE UNDEF

\* A mutation of RegistrySet: an entry once stored under a name stays.
RegistrySetKeepsFirst(name, fn) ==
    [n \in (DOMAIN registry) \cup {name} |->
        IF n \in DOMAIN registry THEN registry[n] ELSE fn]

\* The entries after this._initCallbacks[name] = fn has stored fn.
RegistrySet(name, fn) ==
    [n \in (DOMAIN registry) \cup {name} |-> IF n = name THEN fn ELSE registry[n]]

\* this._initCallbacks[name] = fn: the length of an array takes numbers only,
\* a function assigned to it throws a RangeError and nothing is stored.
RegistryAssign(name, fn) ==
    IF name = "length"
    THEN [registry |-> registry, ended |-> "threw"]
    ELSE [registry |-> RegistrySet(name, fn), ended |-> "returned"]

NoRegistration == [typeName |-> UNDEF, initFunction |-> UNDEF, ended |-> "none"]

\* The names the callers of the dispatcher specification register.
TypeNames == {"counter"}

\* A mutation of RegisterComponentType: whatever is handed in is stored.
RegisterComponentTypeUnchecked(typeNames) ==
    /\ \E typeName \in typeNames, initFunction \in Fns \cup {NotAFunction} :
          LET out == RegistryAssign(typeName, initFunction)
          IN  /\ registry' = out.registry
              /\ registration' = [typeName |-> typeName,
                                  initFunction |-> initFunction,
                                  ended |-> out.ended]
    /\ UNCHANGED <<dom, search, kit, req, trace>>

\* registerComponentType(typeName, initFunction)
RegisterComponentType(typeNames) ==
    /\ \E typeName \in typeNames, initFunction \in Fns \cup {NotAFunction} :
          LET out == IF ~IsFunction(initFunction)
                     THEN [registry |-> registry, ended |-> "returned"]
                     ELSE RegistryAssign(typeName, initFunction)
          IN  /\ registry' = out.registry
              /\ registration' = [typeName |-> typeName,
                                  initFunction |-> initFunction,
                                  ended |-> out.ended]
    /\ UNCHANGED <<dom, search, kit, req, trace>>

\* componentType.toLowerCase(), on the names of the model.
ToLowerCase(name) ==
    CASE name = "Accordion" -> "accordion"
      [] OTHER -> name

\* initFlowbiteAccordion: an Accordion of the Flowbite library on the page,
\* or null when the page has none.
InitFlowbiteAccordion(element, context, options) ==
    IF kit.flowbite
    THEN Value("instance", "", "flowbite.Accordion", element, context, options)
    ELSE NullValue

\* A mutation of InitializeByType: the handler is given the document as context
\* and no options.
InitializeByTypeBareCall(componentType, element, context, options) ==
    LET f == RegistryGet(componentType)
        call == Apply(f, element, Document, UNDEF)
    IN  IF Truthy(f)
        THEN [invoked  |-> <<Invocation(f, element, Document, UNDEF)>>,
              returned |-> IF call.threw THEN <<>> ELSE <<call.value>>,
              thrown   |-> IF call.threw THEN <<call.value>> ELSE <<>>]
        ELSE [invoked |-> <<>>, returned |-> <<NullValue>>, thrown |-> <<>>]

\* A mutation of InitializeByType: the built-in names are tried before the
\* registry.
InitializeByTypeBuiltinFirst(componentType, element, context, options) ==
    LET f == RegistryGet(componentType)
        call == Apply(f, element, context, options)
    IN  IF ToLowerCase(componentType) \in {"flowbite-accordion", "accordion"}
        THEN [invoked  |-> <<Invocation("initFlowbiteAccordion", element, context, options)>>,
              returned |-> <<InitFlowbiteAccordion(element, context, options)>>,
              thrown   |-> <<>>]
        ELSE IF Truthy(f)
        THEN [invoked  |-> <<Invocation(f, element, context, options)>>,
              returned |-> IF call.threw THEN <<>> ELSE <<call.value>>,
              thrown   |-> IF call.threw THEN <<call.value>> ELSE <<>>]
        ELSE [invoked |-> <<>>, returned |-> <<NullValue>>, thrown |-> <<>>]

\* _initializeByType(componentType, element, context, options): the handlers
\* it invoked, and what it returned or threw.
InitializeByType(componentType, element, context, options) ==
    LET f == RegistryGet(componentType)
        call == Apply(f, element, context, options)
    IN  IF Truthy(f)
        THEN [invoked  |-> <<Invocation(f, element, context, options)>>,
              returned |-> IF call.threw THEN <<>> ELSE <<call.value>>,
              thrown   |-> IF call.threw THEN <<call.value>> ELSE <<>>]
        ELSE IF ToLowerCase(componentType) \in {"flowbite-accordion", "accordion"}
        THEN [invoked  |-> <<Invocation("initFlowbiteAccordion", element, context, options)>>,
              returned |-> <<InitFlowbiteAccordion(element, context, options)>>,
              thrown   |-> <<>>]
        ELSE [invoked |-> <<>>, returned |-> <<NullValue>>, thrown |-> <<>>]

(***************************************************************************)
(* initComponent: the call, and the callback its timer runs.               *)
(***************************************************************************)
Resolve(v) == [how |-> "resolve", value |-> v]
Reject(v)  == [how |-> "reject", value |-> v]

NotFoundById(elementId) ==
    ErrorValue("Element with ID \"" \o elementId \o "\" not found")
NotFoundBySelector(selector) ==
    ErrorValue("No elements matching \"" \o selector \o "\" found")
NoTargetGiven  == ErrorValue("Either elementId or selector must be provided")
NoHandlerGiven == ErrorValue("Either componentType or customInit must be provided")

\* A mutation of NothingFound: a search that came back empty goes unnoticed.
NothingFoundIgnored(result) == FALSE

\* !result, results.length === 0: the search came back empty.
NothingFound(result) == result = Null

\* A mutation of LocateStep: without a target the selector search runs all the
\* same.
LocateStepAlwaysSearches(config) ==
    IF Truthy(config.elementId)
    THEN LET result == FindElementById(config.elementId, Document)
         IN  [searched |-> <<[op |-> "byId", key |-> config.elementId]>>,
              result   |-> result,
              error    |-> IF NothingFound(result)
                           THEN <<NotFoundById(config.elementId)>> ELSE <<>>]
    ELSE LET results == FindElementsBySelector(config.selector, Document)
             result  == IF Len(results) = 0 THEN Null ELSE results[1]
         IN  [searched |-> <<[op |-> "bySelector", key |-> config.selector]>>,
              result   |-> result,
              error    |-> IF NothingFound(result)
                           THEN <<NotFoundBySelector(config.selector)>> ELSE <<>>]

\* A mutation of LocateStep: when the id is not found, the selector is tried.
LocateStepFallsBackToSelector(config) ==
    LET byId    == FindElementById(config.elementId, Document)
        results == FindElementsBySelector(config.selector, Document)
        first   == IF Len(results) = 0 THEN Null ELSE results[1]
    IN  IF Truthy(config.elementId) /\ ~(NothingFound(byId) /\ Truthy(config.selector))
        THEN [searched |-> <<[op |-> "byId", key |-> config.elementId]>>,
              result   |-> byId,
              error    |-> IF NothingFound(byId)
                           THEN <<NotFoundById(config.elementId)>> ELSE <<>>]
        ELSE IF Truthy(config.selector)
        THEN [searched |-> IF Truthy(config.elementId)
                           THEN <<[op |-> "byId", key |-> config.elementId],
                                  [op |-> "bySelector", key |-> config.selector]>>
                           ELSE <<[op |-> "bySelector", key |-> config.selector]>>,
              result   |-> first,
              error    |-> IF NothingFound(first)
                           THEN <<NotFoundBySelector(config.selector)>> ELSE <<>>]
        ELSE [searched |-> <<>>, result |-> Null, error |-> <<NoTargetGiven>>]

\* A mutation of LocateStep: of several matches of the selector the last is used.
LocateStepLastMatch(config) ==
    IF Truthy(config.elementId)
    THEN LET result == FindElementById(config.elementId, Document)
         IN  [searched |-> <<[op |-> "byId", key |-> config.elementId]>>,
              result   |-> result,
              error    |-> IF NothingFound(result)
                           THEN <<NotFoundById(config.elementId)>> ELSE <<>>]
    ELSE IF Truthy(config.selector)
    THEN LET results == FindElementsBySelector(config.selector, Document)
             result  == IF Len(results) = 0 THEN Null ELSE results[Len(results)]
         IN  [searched |-> <<[op |-> "bySelector", key |-> config.selector]>>,
              result   |-> result,
              error    |-> IF NothingFound(result)
                           THEN <<NotFoundBySelector(config.selector)>> ELSE <<>>]
    ELSE [searched |-> <<>>, result |-> Null, error |-> <<NoTargetGiven>>]

\* "Find the target element(s)": the searches run, the result, and the error
\* the request is rejected with when there is none.
LocateStep(config) ==
    IF Truthy(config.elementId)
    THEN LET result == FindElementById(config.elementId, Document)
         IN  [searched |-> <<[op |-> "byId", key |-> config.elementId]>>,
              result   |-> result,
              error    |-> IF NothingFound(result)
                           THEN <<NotFoundById(config.elementId)>> ELSE <<>>]
    ELSE IF Truthy(config.selector)
    THEN LET results == FindElementsBySelector(config.selector, Document)
             result  == IF Len(results) = 0 THEN Null ELSE results[1]
         IN  [searched |-> <<[op |-> "bySelector", key |-> config.selector]>>,
              result   |-> result,
              error    |-> IF NothingFound(result)
                           THEN <<NotFoundBySelector(config.selector)>> ELSE <<>>]
    ELSE [searched |-> <<>>, result |-> Null, error |-> <<NoTargetGiven>>]

\* A mutation of InitializeStep: a request without a handler resolves with null.
InitializeStepLenient(config, result) ==
    IF IsFunction(config.customInit)
    THEN LET call == Apply(config.customInit, result.element, result.context,
                           config.options)
         IN  [invoked |-> <<Invocation(config.customInit, result.element,
                                       result.context, config.options)>>,
              settles |-> IF call.threw THEN <<>> ELSE <<Resolve(call.value)>>,
              thrown  |-> IF call.threw THEN <<call.value>> ELSE <<>>]
    ELSE IF Truthy(config.componentType)
    THEN LET by == InitializeByType(config.componentType, result.element,
                                    result.context, config.options)
         IN  [invoked |-> by.invoked,
              settles |-> [k \in 1..Len(by.returned) |-> Resolve(by.returned[k])],
              thrown  |-> by.thrown]
    ELSE [invoked |-> <<>>, settles |-> <<Resolve(NullValue)>>, thrown |-> <<>>]

\* A mutation of InitializeStep: a componentType given is used before
\* customInit is looked at.
InitializeStepPrefersType(config, result) ==
    IF Truthy(config.componentType)
    THEN LET by == InitializeByType(config.componentType, result.element,
                                    result.context, config.options)
         IN  [invoked |-> by.invoked,
              settles |-> [k \in 1..Len(by.returned) |-> Resolve(by.returned[k])],
              thrown  |-> by.thrown]
    ELSE IF IsFunction(config.customInit)
    THEN LET call == Apply(config.customInit, result.element, result.context,
                           config.options)
         IN  [invoked |-> <<Invocation(config.customInit, result.element,
                                       result.context, config.options)>>,
              settles |-> IF call.threw THEN <<>> ELSE <<Resolve(call.value)>>,
              thrown  |-> IF call.threw THEN <<call.value>> ELSE <<>>]
    ELSE [invoked |-> <<>>, settles |-> <<Reject(NoHandlerGiven)>>, thrown |-> <<>>]

\* "Initialize the component": the handlers invoked, the calls of resolve and
\* reject made, and what was thrown out of the step.
InitializeStep(config, result) ==
    IF IsFunction(config.customInit)
    THEN LET call == Apply(config.customInit, result.element, result.context,
                           config.options)
         IN  [invoked |-> <<Invocation(config.customInit, result.element,
                                       result.context, config.options)>>,
              settles |-> IF call.threw THEN <<>> ELSE <<Resolve(call.value)>>,
              thrown  |-> IF call.threw THEN <<call.value>> ELSE <<>>]
    ELSE IF Truthy(config.componentType)
    THEN LET by == InitializeByType(config.componentType, result.element,
                                    result.context, config.options)
         IN  [invoked |-> by.invoked,
              settles |-> [k \in 1..Len(by.returned) |-> Resolve(by.returned[k])],
              thrown  |-> by.thrown]
    ELSE [invoked |-> <<>>, settles |-> <<Reject(NoHandlerGiven)>>, thrown |-> <<>>]

\* A mutation of Catch: the error is logged and dropped.
CatchSwallows(thrown) == [settles |-> <<>>, escaped |-> <<>>]

\* A mutation of Catch: the request is rejected with an error of the kit's own.
CatchWraps(thrown) ==
    [settles |-> [k \in 1..Len(thrown) |-> Reject(ErrorValue("Error initializing component"))],
     escaped |-> <<>>]

\* catch (error) { this.error(...); reject(error); }: nothing thrown in the
\* try block leaves the callback.
Catch(thrown) ==
    [settles |-> [k \in 1..Len(thrown) |-> Reject(thrown[k])],
     escaped |-> <<>>]

\* The callback handed to setTimeout, run on the page as it is now.
TimerCallback(config) ==
    LET loc == LocateStep(config)
    IN  IF loc.error # <<>>
        THEN [searched |-> loc.searched, invoked |-> <<>>,
              settles  |-> <<Reject(loc.error[1])>>, escaped |-> <<>>]
        ELSE LET ini == InitializeStep(config, loc.result)
                 c   == Catch(ini.thrown)
             IN  [searched |-> loc.searched, invoked |-> ini.invoked,
                  settles  |-> ini.settles \o c.settles, escaped |-> c.escaped]

Pending == [state |-> "pending", value |-> NullValue]

\* A promise after a call of resolve or reject: the first call settles it,
\* a later one changes nothing.
Settle(promise, call) ==
    IF promise.state # "pending" THEN promise
    ELSE [state |-> IF call.how = "resolve" THEN "fulfilled" ELSE "rejected",
          value |-> call.value]

RECURSIVE SettleAll(_, _)
SettleAll(promise, calls) ==
    IF calls = <<>> THEN promise
    ELSE SettleAll(Settle(promise, Head(calls)), Tail(calls))

Requests == 1..MaxRequests

NoConfig == [elementId |-> UNDEF, selector |-> UNDEF, componentType |-> UNDEF,
             options |-> UNDEF, customInit |-> UNDEF, delay |-> UndefNum]

Idle == [phase |-> "idle", config |-> NoConfig, delay |-> 0, waited |-> 0,
         promise |-> Pending]

NoTrace == [searched |-> <<>>, invoked |-> <<>>, settles |-> <<>>, escaped |-> <<>>]

\* The configurations callers hand to initComponent.
Configs ==
    [elementId     : {UNDEF, "a"},
     selector      : {UNDEF, "p"},
     componentType : {UNDEF, "counter", "gadget"},
     options       : {UNDEF, "{startValue: 5}"},
     customInit    : {UNDEF, NotAFunction} \cup Fns,
     delay         : {UndefNum, TimeStep}]

\* setTimeout(callback, delay): a delay that is no number counts as 0.
TimerDelay(delay) == IF delay = UndefNum THEN 0 ELSE delay

\* A mutation of InitComponent: the handler is looked up at the call, and what
\* the registry holds then is bound to the request.
InitComponentBindsHandler(r, configs) ==
    /\ req[r].phase = "idle"
    /\ \E config \in configs :
          LET delay == IF config.delay = UndefNum
                       THEN kit.searchDelay ELSE config.delay
              bound == IF /\ ~IsFunction(config.customInit)
                          /\ config.componentType \in DOMAIN registry
                       THEN [config EXCEPT !.customInit = registry[config.componentType]]
                       ELSE config
          IN  req' = [req EXCEPT ![r] =
                        [phase |-> "waiting", config |-> bound,
                         delay |-> TimerDelay(delay), waited |-> 0,
                         promise |-> Pending]]
    /\ UNCHANGED <<dom, search, kit, registry, registration, trace>>

\* A mutation of InitComponent: the timer is set to the instance's searchDelay,
\* whatever delay the request gives.
InitComponentIgnoresOwnDelay(r, configs) ==
    /\ req[r].phase = "idle"
    /\ \E config \in configs :
          req' = [req EXCEPT ![r] =
                    [phase |-> "waiting", config |-> config,
                     delay |-> TimerDelay(kit.searchDelay), waited |-> 0,
                     promise |-> Pending]]
    /\ UNCHANGED <<dom, search, kit, registry, registration, trace>>

\* initComponent(config): delay defaults to this.options.searchDelay; the
\* promise is made and the timer set, nothing else happens at the call.
InitComponent(r, configs) ==
    /\ req[r].phase = "idle"
    /\ \E config \in configs :
          LET delay == IF config.delay = UndefNum
                       THEN kit.searchDelay ELSE config.delay
          IN  req' = [req EXCEPT ![r] =
                        [phase |-> "waiting", config |-> config,
                         delay |-> TimerDelay(delay), waited |-> 0,
                         promise |-> Pending]]
    /\ UNCHANGED <<dom, search, kit, registry, registration, trace>>

\* TimeStep milliseconds pass while a timer is not yet due.
Advance ==
    /\ \E r \in DOMAIN req : req[r].phase = "waiting" /\ req[r].waited < req[r].delay
    /\ req' = [r \in DOMAIN req |->
                 IF req[r].phase = "waiting" /\ req[r].waited < req[r].delay
                 THEN [req[r] EXCEPT !.waited = @ + TimeStep]
                 ELSE req[r]]
    /\ UNCHANGED <<dom, search, kit, registry, registration, trace>>

\* A mutation of TimerFires: resolve and reject are shared by the requests
\* outstanding, so what settles r settles every request still waiting.
TimerFiresSharedPromise(r) ==
    /\ req[r].phase = "waiting"
    /\ req[r].waited >= req[r].delay
    /\ \E out \in {TimerCallback(req[r].config)} :
           /\ trace' = [trace EXCEPT ![r] = out]
           /\ req' = [s \in DOMAIN req |->
                        IF s = r
                        THEN [req[s] EXCEPT !.phase = "fired",
                                            !.promise = SettleAll(@, out.settles)]
                        ELSE IF req[s].phase = "waiting"
                        THEN [req[s] EXCEPT !.promise = SettleAll(@, out.settles)]
                        ELSE req[s]]
    /\ UNCHANGED <<dom, search, kit, registry, registration>>

\* A mutation of TimerFires: a search that finds nothing is tried again later,
\* the request keeps waiting.
TimerFiresPolls(r) ==
    /\ req[r].phase = "waiting"
    /\ req[r].waited >= req[r].delay
    /\ \E out \in {TimerCallback(req[r].config)} :
           IF out.searched # <<>> /\ out.invoked = <<>>
              /\ out.settles # <<>> /\ out.settles[1].how = "reject"
              /\ out.settles[1].value \in {NotFoundById(req[r].config.elementId),
                                           NotFoundBySelector(req[r].config.selector)}
           THEN /\ trace' = [trace EXCEPT ![r] = [out EXCEPT !.settles = <<>>]]
                /\ req' = req
           ELSE /\ trace' = [trace EXCEPT ![r] = out]
                /\ req' = [req EXCEPT ![r].phase = "fired",
                                      ![r].promise = SettleAll(@, out.settles)]
    /\ UNCHANGED <<dom, search, kit, registry, registration>>

\* The timer of request r fires, no sooner than its delay: the callback
\* runs to its end.
TimerFires(r) ==
    /\ req[r].phase = "waiting"
    /\ req[r].waited >= req[r].delay
    /\ \E out \in {TimerCallback(req[r].config)} :
           /\ trace' = [trace EXCEPT ![r] = out]
           /\ req' = [req EXCEPT ![r].phase = "fired",
                                 ![r].promise = SettleAll(@, out.settles)]
    /\ UNCHANGED <<dom, search, kit, registry, registration>>

(***************************************************************************)
(* The specifications.                                                     *)
(***************************************************************************)
\* An empty document, an instance constructed with or without a searchDelay,
\* no request made.
Init ==
    /\ dom = [e \in Elems |-> Absent]
    /\ search = NoSearch
    /\ \E searchDelay \in {UndefNum, 0} : kit = Constructor(searchDelay)
    /\ registry = <<>>
    /\ registration = NoRegistration
    /\ req = [r \in Requests |-> Idle]
    /\ trace = [r \in Requests |-> NoTrace]

\* The dispatcher on a small page that keeps changing.
Next ==
    \/ AppendElement(MaxPageElems)
    \/ AttachShadow
    \/ RegisterComponentType(TypeNames)
    \/ \E r \in Requests : InitComponent(r, Configs)
    \/ Advance
    \/ \E r \in Requests : TimerFires(r)

Spec == Init /\ [][Next]_vars

\* A page with an element inside an open shadow tree.
NestedPage ==
    [e \in Elems |->
        IF e = 1 THEN [root |-> Document, id |-> "", tag |-> "div", shadow |-> "open"]
        ELSE IF e = 2 THEN [root |-> 1, id |-> "a", tag |-> "p", shadow |-> "none"]
        ELSE Absent]

\* Requests by id only, one for each way through the callback.
PathConfigs ==
    [elementId     : {UNDEF, "a"},
     selector      : {UNDEF},
     componentType : {UNDEF, "counter", "gadget"},
     options       : {"{startValue: 5}"},
     customInit    : {UNDEF, "mkBroken"},
     delay         : {UndefNum}]

\* The dispatcher on a page that stays as it is: empty, or NestedPage.
PathInit ==
    /\ dom \in {[e \in Elems |-> Absent], NestedPage}
    /\ search = NoSearch
    /\ \E searchDelay \in {UndefNum, 0} : kit = Constructor(searchDelay)
    /\ registry = <<>>
    /\ registration = NoRegistration
    /\ req = [r \in Requests |-> Idle]
    /\ trace = [r \in Requests |-> NoTrace]

PathNext ==
    \/ RegisterComponentType(TypeNames)
    \/ \E r \in Requests : InitComponent(r, PathConfigs)
    \/ Advance
    \/ \E r \in Requests : TimerFires(r)

\* The host's timers: time passes, and every timer set fires once it is due.
FairSpec ==
    /\ PathInit
    /\ [][PathNext]_vars
    /\ WF_vars(Advance)
    /\ \A r \in Requests : WF_vars(TimerFires(r))

\* The locator called directly on every page of up to MaxElems elements.
SearchNext ==
    \/ AppendElement(MaxElems)
    \/ AttachShadow
    \/ CallFindElementById
    \/ CallFindElementsBySelector
    \/ ReleaseResult

SearchSpec == Init /\ [][SearchNext]_vars

\* The callers of the specification of concurrent requests.
PairRequests == 1..MaxPairRequests

\* The names registered there: "gadget" is unknown until it is registered.
PairNames == {"counter", "gadget"}

\* Requests by id for an element of the page ("a") or for none ("b"), with a
\* delay of their own, one for each way a request can end.
PairConfigs ==
    [elementId     : {UNDEF, "a", "b"},
     selector      : {UNDEF},
     componentType : {UNDEF, "counter", "gadget"},
     options       : {"{startValue: 5}"},
     customInit    : {UNDEF, "mkBroken"},
     delay         : {0, TimeStep}]

\* Several callers on NestedPage, which stays as it is.
PairInit ==
    /\ dom = NestedPage
    /\ search = NoSearch
    /\ kit = Constructor(UndefNum)
    /\ registry = <<>>
    /\ registration = NoRegistration
    /\ req = [r \in PairRequests |-> Idle]
    /\ trace = [r \in PairRequests |-> NoTrace]

PairNext ==
    \/ RegisterComponentType(PairNames)
    \/ \E r \in PairRequests : InitComponent(r, PairConfigs)
    \/ Advance
    \/ \E r \in PairRequests : TimerFires(r)

PairSpec == PairInit /\ [][PairNext]_vars

\* The names handed to the registry: one of the caller's own, those the
\* built-in handler answers to, and the properties an array has of itself.
RegistryNames == {"counter", "accordion", "flowbite-accordion"} \cup ArrayProperties

\* Requests for the element of NestedPage, due at once, by every kind of
\* componentType and customInit.
RegistryConfigs ==
    [elementId     : {"a"},
     selector      : {UNDEF},
     componentType : {UNDEF, "counter", "gadget", "accordion", "Accordion",
                      "flowbite-accordion"} \cup ArrayProperties,
     options       : {"{startValue: 5}"},
     customInit    : {UNDEF, NotAFunction} \cup Fns,
     delay         : {0}]

\* NestedPage, with or without the Flowbite library loaded, and an instance
\* just constructed.
RegistryInit ==
    /\ dom = NestedPage
    /\ search = NoSearch
    /\ \E library \in BOOLEAN :
          kit = [Constructor(UndefNum) EXCEPT !.flowbite = library]
    /\ registry = <<>>
    /\ registration = NoRegistration
    /\ req = [r \in Requests |-> Idle]
    /\ trace = [r \in Requests |-> NoTrace]

RegistryNext ==
    \/ RegisterComponentType(RegistryNames)
    \/ \E r \in Requests : InitComponent(r, RegistryConfigs)
    \/ \E r \in Requests : TimerFires(r)

RegistrySpec == RegistryInit /\ [][RegistryNext]_vars

\* The searchDelay options handed to the constructor: none, 0, a positive one.
SearchDelays == {UndefNum, 0, TimeStep}

\* Requests with a custom initializer, by every kind of delay: none, 0,
\* shorter and longer than a searchDelay given.
DelayConfigs ==
    [elementId     : {"a"},
     selector      : {UNDEF},
     componentType : {UNDEF},
     options       : {UNDEF},
     customInit    : Fns,
     delay         : {UndefNum, 0, TimeStep, 2 * TimeStep}]

\* The empty page or NestedPage, and an instance constructed with any of
\* SearchDelays.
DelayInit ==
    /\ dom \in {[e \in Elems |-> Absent], NestedPage}
    /\ search = NoSearch
    /\ \E searchDelay \in SearchDelays : kit = Constructor(searchDelay)
    /\ registry = <<>>
    /\ registration = NoRegistration
    /\ req = [r \in Requests |-> Idle]
    /\ trace = [r \in Requests |-> NoTrace]

DelayNext ==
    \/ \E r \in Requests : InitComponent(r, DelayConfigs)
    \/ Advance
    \/ \E r \in Requests : TimerFires(r)

DelaySpec == DelayInit /\ [][DelayNext]_vars

\* Requests with a custom initializer, due at once, by every way of naming
\* the target: by id, by selector, by both, by neither.
TargetConfigs ==
    [elementId     : {UNDEF, "a"},
     selector      : {UNDEF, "p"},
     componentType : {UNDEF},
     options       : {UNDEF},
     customInit    : {"mkWidget"},
     delay         : {0}]

\* An empty document and an instance constructed without options.
TargetInit ==
    /\ dom = [e \in Elems |-> Absent]
    /\ search = NoSearch
    /\ kit = Constructor(UndefNum)
    /\ registry = <<>>
    /\ registration = NoRegistration
    /\ req = [r \in Requests |-> Idle]
    /\ trace = [r \in Requests |-> NoTrace]

\* How a request finds its target, on every page of up to MaxElems elements.
TargetNext ==
    \/ AppendElement(MaxElems)
    \/ AttachShadow
    \/ \E r \in Requests : InitComponent(r, TargetConfigs)
    \/ \E r \in Requests : TimerFires(r)

TargetSpec == TargetInit /\ [][TargetNext]_vars

\* Requests that leave the choice of the handler to componentType, due at
\* once or after a delay.
ByTypeConfigs ==
    [elementId     : {"a"},
     selector      : {UNDEF},
     componentType : {"counter", "gadget"},
     options       : {"{startValue: 5}"},
     customInit    : {UNDEF},
     delay         : {0, TimeStep}]

\* Registrations before a request is made, while it waits and after it has
\* fired, on NestedPage.
ByTypeNext ==
    \/ RegisterComponentType(PairNames)
    \/ \E r \in Requests : InitComponent(r, ByTypeConfigs)
    \/ Advance
    \/ \E r \in Requests : TimerFires(r)

ByTypeSpec == RegistryInit /\ [][ByTypeNext]_vars

RECURSIVE PagesOf(_)
\* Pages of n elements as AppendElement and AttachShadow build them: the
\* first two are hosts in the document, open or closed; each later element
\* lies in the document or in the shadow tree of an earlier host, with or
\* without the id, and may host a shadow tree itself.
PagesOf(n) ==
    IF n = 0 THEN {[e \in Elems |-> Absent]}
    ELSE UNION { { [d EXCEPT ![n] = [root |-> root, id |-> id, tag |-> "div",
                                     shadow |-> mode]]
                   : root \in {Document} \cup
                              {h \in 1..(n - 1) : n > 2 /\ d[h].shadow # "none"},
                     id   \in (IF n > 2 THEN ElemIds ELSE {""}),
                     mode \in (IF n > 2 THEN Modes ELSE {"open", "closed"}) }
                 : d \in PagesOf(n - 1) }

\* One of the pages of MaxDeepElems elements, which stays as it is.
DeepInit ==
    /\ dom \in PagesOf(MaxDeepElems)
    /\ search = NoSearch
    /\ kit = Constructor(UndefNum)
    /\ registry = <<>>
    /\ registration = NoRegistration
    /\ req = [r \in Requests |-> Idle]
    /\ trace = [r \in Requests |-> NoTrace]

DeepNext ==
    \/ CallFindElementById
    \/ ReleaseResult

\* findElementById on pages deep enough for the same id to lie at several
\* depths under several hosts.
DeepSpec == DeepInit /\ [][DeepNext]_vars

\* The id attributes of the pages both methods are compared on.
PageIds == {"", "a", "a.b"}

RECURSIVE IdPages(_)
\* Pages of n elements as AppendElement and AttachShadow build them: each
\* element lies in the document or in the shadow tree of an earlier host, with
\* one of PageIds as its id, and may host a shadow tree itself.
IdPages(n) ==
    IF n = 0 THEN {[e \in Elems |-> Absent]}
    ELSE UNION { { [d EXCEPT ![n] = [root |-> root, id |-> id, tag |-> "div",
                                     shadow |-> mode]]
                   : root \in {Document} \cup {h \in 1..(n - 1) : d[h].shadow # "none"},
                     id   \in PageIds,
                     mode \in Modes }
                 : d \in IdPages(n - 1) }

\* One of the pages of MaxElems elements, which stays as it is.
AgreeInit ==
    /\ dom \in IdPages(MaxElems)
    /\ search = NoSearch
    /\ kit = Constructor(UndefNum)
    /\ registry = <<>>
    /\ registration = NoRegistration
    /\ req = [r \in Requests |-> Idle]
    /\ trace = [r \in Requests |-> NoTrace]

AgreeNext ==
    \/ CallBothFinds
    \/ ReleaseResult

\* Both find methods asked for the same id, from every tree script reaches.
AgreeSpec == AgreeInit /\ [][AgreeNext]_vars

(***************************************************************************)
(* What the locator is to find, stated on the page and not by its walk.    *)
(***************************************************************************)
\* The elements below a root that script can reach: those of the root and of
\* the open shadow trees under it.
ReachableFrom(root) == {e \in Elems : Present(e) /\ dom[e].root \in OpenBelow(root)}

IdPlaces(id, root) == {e \in ReachableFrom(root) : dom[e].id = id}

RECURSIVE InsideClosed(_)
\* The element lies in a closed shadow tree, or in a tree nested under one.
InsideClosed(e) ==
    LET r == dom[e].root
    IN  r # Document /\ (dom[r].shadow = "closed" \/ InsideClosed(r))

RECURSIVE HostChain(_, _)
\* The hosts passed on the way down from a root to the tree that holds e,
\* outermost first; e itself comes last.
HostChain(e, root) ==
    IF dom[e].root = root THEN <<e>> ELSE HostChain(dom[e].root, root) \o <<e>>

RECURSIVE ChainBefore(_, _)
\* The traversal order on chains: a tree's own elements come before anything
\* in the shadow trees of its hosts, hosts are entered in document order.
ChainBefore(c, d) ==
    IF Len(c) = 1 /\ Len(d) = 1 THEN c[1] < d[1]
    ELSE IF Len(c) = 1 THEN TRUE
    ELSE IF Len(d) = 1 THEN FALSE
    ELSE IF c[1] # d[1] THEN c[1] < d[1]
    ELSE ChainBefore(Tail(c), Tail(d))

\* C1: findElementById(id, root) returns the one element that carries the id
\* among those reachable from root, with the tree that directly holds it as
\* context, and null when no reachable element carries the id.
C1_FindByIdLocatesUnique ==
    search.op = "byId" =>
        LET P == IdPlaces(search.key, search.root)
        IN  /\ P = {} => search.one = Null
            /\ Cardinality(P) = 1 =>
                  \E e \in P : search.one = LocateResult(e, dom[e].root)

\* The id is found two shadow trees below the root the search started from.
C1_Witness ==
    /\ search.op = "byId"
    /\ Cardinality(IdPlaces(search.key, search.root)) = 1
    /\ search.one # Null
    /\ search.one.context # search.root
    /\ dom[search.one.context].root # search.root

\* C2: findElementsBySelector(selector, root) lists every matching element
\* reachable from root exactly once, each with the tree that directly holds
\* it, in traversal order: a tree's own matches in document order, then the
\* shadow trees of its hosts in document order, each in the same way.
C2_FindAllCompleteOrdered ==
    search.op = "bySelector" =>
        LET all == search.all
            M   == {e \in ReachableFrom(search.root) : Matches(e, search.key)}
        IN  /\ {all[k] : k \in 1..Len(all)} = {LocateResult(e, dom[e].root) : e \in M}
            /\ Len(all) = Cardinality(M)
            /\ \A i, j \in 1..Len(all) :
                  i < j => ChainBefore(HostChain(all[i].element, search.root),
                                       HostChain(all[j].element, search.root))

\* A match inside the shadow tree of a host that does not match itself, listed
\* after a match of the root.
C2_Witness ==
    /\ search.op = "bySelector"
    /\ Len(search.all) >= 2
    /\ search.all[1].context = search.root
    /\ search.all[2].context # search.root
    /\ ~Matches(search.all[2].context, search.key)

\* C3: neither search returns an element that lies inside a closed shadow
\* tree or in a tree nested under one; an id carried only by such elements
\* yields null.
C3_ClosedNeverVisited ==
    /\ search.op = "byId" =>
          /\ search.one # Null => ~InsideClosed(search.one.element)
          /\ (\A e \in Elems : Present(e) /\ dom[e].id = search.key => InsideClosed(e))
                => search.one = Null
    /\ search.op = "bySelector" =>
          \A k \in 1..Len(search.all) : ~InsideClosed(search.all[k].element)

\* The id searched exists, inside a closed shadow tree only, and is not found.
C3_Witness ==
    /\ search.op = "byId"
    /\ \E e \in Elems : Present(e) /\ dom[e].id = search.key /\ InsideClosed(e)
    /\ search.one = Null

(***************************************************************************)
(* What the dispatcher is to do, stated on the request and the page.       *)
(***************************************************************************)
Fired(r) == req[r].phase = "fired"

\* The step in which the timer of request r fires.
FiresNow(r) == req[r].phase = "waiting" /\ req'[r].phase = "fired"

TargetGiven(config) == Truthy(config.elementId) \/ Truthy(config.selector)

\* The elements of the page the request can be about: elementId decides when
\* given, the selector otherwise.
Candidates(config) ==
    IF Truthy(config.elementId)
    THEN IdPlaces(config.elementId, Document)
    ELSE IF Truthy(config.selector)
    THEN {e \in ReachableFrom(Document) : Matches(e, config.selector)}
    ELSE {}

\* The error that names what the request searched for.
NotFoundError(config) ==
    IF Truthy(config.elementId)
    THEN NotFoundById(config.elementId)
    ELSE NotFoundBySelector(config.selector)

\* The delay the request asked for: its own, or the instance's.
RequestedDelay(config) ==
    IF config.delay # UndefNum THEN config.delay ELSE kit.searchDelay

Rejected(v)  == [state |-> "rejected", value |-> v]
Fulfilled(v) == [state |-> "fulfilled", value |-> v]

C4_OneSettle ==
    \A r \in Requests :
        /\ Fired(r) =>
              /\ Len(trace[r].settles) = 1
              /\ trace[r].escaped = <<>>
              /\ req[r].promise.state =
                    (IF trace[r].settles[1].how = "resolve"
                     THEN "fulfilled" ELSE "rejected")
        /\ ~Fired(r) =>
              /\ trace[r].settles = <<>>
              /\ req[r].promise = Pending

C4_Settled(r) == req[r].promise.state \in {"fulfilled", "rejected"}

\* C4: every request ends in exactly one settled outcome: resolve or reject is
\* called once, in the callback of its timer and on every path through it; the
\* promise is then fulfilled or rejected, never changes again, and every
\* request made is settled in the end.
C4_ExactlyOneSettledOutcome ==
    /\ []C4_OneSettle
    /\ [][\A r \in Requests : C4_Settled(r) => req'[r].promise = req[r].promise]_vars
    /\ \A r \in Requests : (req[r].phase = "waiting") ~> C4_Settled(r)

\* A request whose handler threw was settled, as a failure.
C4_Witness ==
    \E r \in Requests :
        /\ Fired(r)
        /\ trace[r].invoked # <<>>
        /\ req[r].promise.state = "rejected"
        /\ req[r].promise.value.tag = "thrown"

C7_NotFoundRejectsWithoutHandler ==
    [][\A r \in Requests :
          /\ FiresNow(r)
          /\ TargetGiven(req[r].config)
          /\ Candidates(req[r].config) = {}
          => /\ req'[r].promise = Rejected(NotFoundError(req[r].config))
             /\ trace'[r].invoked = <<>>
             /\ req[r].waited >= RequestedDelay(req[r].config)]_vars

\* A request for a registered type, rejected as not found after the default
\* delay, its handler not invoked.
C7_Witness ==
    \E r \in Requests :
        /\ Fired(r)
        /\ req[r].config.componentType \in DOMAIN registry
        /\ req[r].promise = Rejected(NotFoundById(req[r].config.elementId))
        /\ req[r].waited >= DefaultSearchDelay
        /\ trace[r].invoked = <<>>

\* C8: for a request that selects its handler by componentType (it gives no
\* customInit function), with a handler fn registered under that name and a
\* target on the page when the timer fires, fn is invoked exactly once, with
\* a target element, the tree that directly holds it and the request's
\* options; when fn returns, the request is fulfilled with the value returned.
C8_RegisteredHandlerInvokedOnce ==
    [][\A r \in Requests :
          /\ FiresNow(r)
          /\ ~IsFunction(req[r].config.customInit)
          /\ Truthy(req[r].config.componentType)
          /\ req[r].config.componentType \in DOMAIN registry
          /\ Candidates(req[r].config) # {}
          => LET fn == registry[req[r].config.componentType]
                 options == req[r].config.options
             IN  \E e \in Candidates(req[r].config) :
                    /\ trace'[r].invoked = <<Invocation(fn, e, dom[e].root, options)>>
                    /\ fn \notin Throwers =>
                          req'[r].promise =
                              Fulfilled(Apply(fn, e, dom[e].root, options).value)]_vars

\* The registered handler ran on an element inside a shadow tree with the
\* options of the request, and the request was fulfilled with its value.
C8_Witness ==
    \E r \in Requests :
        /\ Fired(r)
        /\ ~IsFunction(req[r].config.customInit)
        /\ Len(trace[r].invoked) = 1
        /\ trace[r].invoked[1].fn = "mkWidget"
        /\ trace[r].invoked[1].context # Document
        /\ trace[r].invoked[1].options # UNDEF
        /\ req[r].promise.state = "fulfilled"
        /\ req[r].promise.value.fn = "mkWidget"

\* C9: when the handler invoked for a request, a customInit function or a
\* registered one, throws, the request is rejected with the very value
\* thrown; nothing leaves the callback uncaught, and the request is not
\* fulfilled.
C9_ThrownValueRejects ==
    \A r \in Requests :
        \A k \in 1..Len(trace[r].invoked) :
            LET call == trace[r].invoked[k]
            IN  call.fn \in Throwers =>
                   /\ req[r].promise =
                         Rejected(Apply(call.fn, call.element, call.context,
                                        call.options).value)
                   /\ trace[r].escaped = <<>>
                   /\ Len(trace[r].invoked) = 1

\* A registered handler threw and the request was rejected with what it threw.
C9_Witness ==
    \E r \in Requests :
        /\ Fired(r)
        /\ ~IsFunction(req[r].config.customInit)
        /\ trace[r].invoked # <<>>
        /\ trace[r].invoked[1].fn \in Throwers
        /\ req[r].promise.value.tag = "thrown"

\* C10: a request whose componentType is neither registered nor the name of
\* a built-in handler is rejected.
C10_UnknownTypeRejects ==
    \A r \in Requests :
        /\ Fired(r)
        /\ ~IsFunction(req[r].config.customInit)
        /\ Truthy(req[r].config.componentType)
        /\ req[r].config.componentType \notin DOMAIN registry
        /\ ToLowerCase(req[r].config.componentType)
              \notin {"flowbite-accordion", "accordion"}
        => req[r].promise.state = "rejected"

\* C11: a registration of a function that returns stores that function under
\* its name, in place of whatever was stored there, and leaves the entry of
\* every other name as it was; a dispatch by componentType then invokes the
\* function stored under the name when the timer fires, once, and no other:
\* after registering f1 and then f2 under a name, f2 and never f1.
C11_SecondRegistrationReplaces ==
    [][/\ (/\ registration' # registration
           /\ IsFunction(registration'.initFunction)
           /\ registration'.ended = "returned")
          => LET name == registration'.typeName
             IN  /\ DOMAIN registry' = DOMAIN registry \cup {name}
                 /\ registry'[name] = registration'.initFunction
                 /\ \A n \in DOMAIN registry \ {name} : registry'[n] = registry[n]
       /\ \A r \in PairRequests :
             /\ FiresNow(r)
             /\ ~IsFunction(req[r].config.customInit)
             /\ req[r].config.componentType \in DOMAIN registry
             /\ Candidates(req[r].config) # {}
             => \E e \in Candidates(req[r].config) :
                   trace'[r].invoked =
                      <<Invocation(registry[req[r].config.componentType], e,
                                   dom[e].root, req[r].config.options)>>]_vars

\* One name dispatched twice: the first request ran the function registered
\* first, the second ran the function registered over it, the entry of the
\* other name being still there.
C11_Witness ==
    /\ Fired(1) /\ Fired(2)
    /\ req[1].config.componentType = "counter"
    /\ req[2].config.componentType = "counter"
    /\ Len(trace[1].invoked) = 1 /\ Len(trace[2].invoked) = 1
    /\ trace[1].invoked[1].fn = "mkBroken"
    /\ trace[2].invoked[1].fn = "mkWidget"
    /\ registration = [typeName |-> "counter", initFunction |-> "mkWidget",
                       ended |-> "returned"]
    /\ "gadget" \in DOMAIN registry

\* C12: a call of registerComponentType that hands in something that is no
\* function returns without throwing and changes no entry of the registry:
\* none is added, and the entry stored under the same name before is the one
\* a dispatch of that name invokes afterwards.
C12_NonFunctionChangesNothing ==
    [][/\ (/\ registration' # registration
           /\ ~IsFunction(registration'.initFunction))
          => /\ registration'.ended = "returned"
             /\ registry' = registry
       /\ \A r \in Requests :
             /\ FiresNow(r)
             /\ ~IsFunction(registration.initFunction)
             /\ registration.typeName = req[r].config.componentType
             /\ ~IsFunction(req[r].config.customInit)
             /\ req[r].config.componentType \in DOMAIN registry
             => /\ Len(trace'[r].invoked) = 1
                /\ trace'[r].invoked[1].fn = registry[req[r].config.componentType]
                /\ trace'[r].invoked[1].fn \in Fns]_vars

\* Something that is no function was handed in under a name that has an
\* entry; the entry is still there and a request for the name has run it.
C12_Witness ==
    \E r \in Requests :
        /\ Fired(r)
        /\ registration = [typeName |-> "counter", initFunction |-> NotAFunction,
                           ended |-> "returned"]
        /\ req[r].config.componentType = "counter"
        /\ "counter" \in DOMAIN registry
        /\ Len(trace[r].invoked) = 1
        /\ trace[r].invoked[1].fn = registry["counter"]

\* C13: the registry answers only to the names registered on it with a
\* function: every registration of a function returns, and a dispatch of a
\* name that has no entry, a property of the container included, invokes no
\* handler of the registry (at most a built-in one).
C13_OnlyRegisteredNamesResolve ==
    [][/\ registration'.ended # "threw"
       /\ \A r \in Requests :
             /\ FiresNow(r)
             /\ ~IsFunction(req[r].config.customInit)
             /\ Truthy(req[r].config.componentType)
             /\ req[r].config.componentType \notin DOMAIN registry
             => \A k \in 1..Len(trace'[r].invoked) :
                   trace'[r].invoked[k].fn = "initFlowbiteAccordion"]_vars

\* C14: a request suspends once, for its delay: its timer is set to the delay
\* the request gives (0 included) and to the instance's searchDelay when it
\* gives none, which is 300 for an instance constructed without one; until
\* that time has passed nothing is searched, no handler is invoked and the
\* promise is pending, and a request that has fired never waits again.
C14_SuspendsOnceForItsDelay ==
    /\ Constructor(UndefNum).searchDelay = 300
    /\ [](\A r \in Requests :
             /\ req[r].phase # "idle" =>
                   /\ req[r].delay = RequestedDelay(req[r].config)
                   /\ req[r].config.delay = UndefNum /\ kit = Constructor(UndefNum)
                         => req[r].delay = 300
             /\ req[r].phase = "waiting" =>
                   /\ trace[r] = NoTrace
                   /\ req[r].promise = Pending
             /\ Fired(r) => req[r].waited >= RequestedDelay(req[r].config))
    /\ [][\A r \in Requests :
             /\ req[r].phase = "waiting" => req'[r].phase \in {"waiting", "fired"}
             /\ Fired(r) => req'[r] = req[r] /\ trace'[r] = trace[r]]_vars

\* A request that gave delay 0 to an instance whose searchDelay is 300 ran
\* its search without any time passing.
C14_Witness ==
    \E r \in Requests :
        /\ Fired(r)
        /\ kit.searchDelay = DefaultSearchDelay
        /\ req[r].config.delay = 0
        /\ req[r].waited = 0
        /\ trace[r].searched # <<>>

\* What a request comes to by its own configuration, on the page and with the
\* registry of the moment: the error of a missing target, of a target not
\* found, of a missing handler; what its handler threw or returned on a
\* target; null for a componentType nothing answers to.
OwnOutcomes(config) ==
    IF ~TargetGiven(config) THEN {Rejected(NoTargetGiven)}
    ELSE IF Candidates(config) = {} THEN {Rejected(NotFoundError(config))}
    ELSE LET type == config.componentType
             fn   == IF IsFunction(config.customInit) THEN config.customInit
                     ELSE IF Truthy(type) /\ type \in DOMAIN registry
                     THEN registry[type]
                     ELSE UNDEF
         IN  IF fn # UNDEF
             THEN { IF fn \in Throwers
                    THEN Rejected(Value("thrown", "", fn, e, dom[e].root, config.options))
                    ELSE Fulfilled(Value("instance", "", fn, e, dom[e].root, config.options))
                    : e \in Candidates(config) }
             ELSE IF Truthy(type) THEN {Fulfilled(NullValue)}
             ELSE {Rejected(NoHandlerGiven)}

\* C15: requests outstanding together do not touch each other: the step in
\* which the timer of one fires settles that request alone, with the outcome
\* and value its own configuration comes to, its handler invoked on its own
\* target only; every other request, settled or waiting, is left as it was,
\* whichever timer fires first and however the other request ended.
C15_RequestsIndependent ==
    [][\A r \in PairRequests :
          FiresNow(r) =>
             /\ req'[r].promise \in OwnOutcomes(req[r].config)
             /\ \A k \in 1..Len(trace'[r].invoked) :
                   /\ trace'[r].invoked[k].element \in Candidates(req[r].config)
                   /\ trace'[r].invoked[k].options = req[r].config.options
             /\ \A s \in PairRequests \ {r} :
                   req'[s] = req[s] /\ trace'[s] = trace[s]]_vars

\* The request with the longer delay was fulfilled by its registered handler
\* on its element; the other had been rejected with what its handler threw.
C15_Witness ==
    \E r, s \in PairRequests :
        /\ r # s
        /\ Fired(r) /\ Fired(s)
        /\ req[r].delay < req[s].delay
        /\ req[r].promise.state = "rejected"
        /\ req[r].promise.value.tag = "thrown"
        /\ req[s].promise.state = "fulfilled"
        /\ req[s].promise.value.tag = "instance"
        /\ req[s].promise.value.element \in Candidates(req[s].config)

\* C16: a request that gives an elementId is decided by the search by id
\* alone, whether or not it gives a selector too: that search is the only one
\* run; if no element reachable carries the id the request is rejected as
\* not found for the id, no handler invoked, even when the selector matches
\* an element; otherwise the handler runs on an element carrying the id.
\* The selector is searched only for a request without elementId.
C16_ElementIdDecides ==
    [][\A r \in Requests :
          FiresNow(r) =>
             LET config == req[r].config
                 byId   == IdPlaces(config.elementId, Document)
             IN  /\ Truthy(config.elementId) =>
                       /\ trace'[r].searched =
                             <<[op |-> "byId", key |-> config.elementId]>>
                       /\ byId = {} =>
                             /\ req'[r].promise =
                                   Rejected(NotFoundById(config.elementId))
                             /\ trace'[r].invoked = <<>>
                       /\ byId # {} =>
                             /\ Len(trace'[r].invoked) = 1
                             /\ trace'[r].invoked[1].element \in byId
                 /\ (\E k \in 1..Len(trace'[r].searched) :
                        trace'[r].searched[k].op = "bySelector")
                       => ~Truthy(config.elementId)]_vars

\* A request with elementId and selector, rejected as not found for the id
\* on a page that holds an element the selector matches.
C16_Witness ==
    \E r \in Requests :
        /\ Fired(r)
        /\ req[r].config.elementId = "a"
        /\ req[r].config.selector = "p"
        /\ req[r].promise = Rejected(NotFoundById("a"))
        /\ IdPlaces("a", Document) = {}
        /\ \E e \in ReachableFrom(Document) : Matches(e, "p")

\* The matches of a selector that come before every other match in traversal
\* order.
FirstInTraversal(M) ==
    {e \in M : \A m \in M \ {e} :
        ChainBefore(HostChain(e, Document), HostChain(m, Document))}

\* C17: for a request by selector alone whose selector matches several
\* elements reachable from the document, the handler is invoked once, on the
\* match that is first in traversal order and with the tree that holds it as
\* context, and on no other match.
C17_FirstMatchOnly ==
    [][\A r \in Requests :
          /\ FiresNow(r)
          /\ ~Truthy(req[r].config.elementId)
          /\ Truthy(req[r].config.selector)
          /\ Candidates(req[r].config) # {}
          => \E e \in FirstInTraversal(Candidates(req[r].config)) :
                trace'[r].invoked =
                   <<Invocation(req[r].config.customInit, e, dom[e].root,
                                req[r].config.options)>>]_vars

\* The handler ran on a match in the document although another match, in the
\* shadow tree of a host, comes before it in the numbering of the page.
C17_Witness ==
    \E r \in Requests :
        /\ Fired(r)
        /\ req[r].config.elementId = UNDEF
        /\ Len(trace[r].invoked) = 1
        /\ trace[r].invoked[1].context = Document
        /\ \E m \in Elems :
              /\ m < trace[r].invoked[1].element
              /\ Present(m)
              /\ dom[m].root # Document
              /\ ~InsideClosed(m)
              /\ Matches(m, req[r].config.selector)

\* C18: when several elements reachable from the root carry the id,
\* findElementById returns a match of the root itself if the root holds one;
\* otherwise a match from the shadow subtree (the shadow tree and everything
\* reachable below it) of the first host of the root, in document order,
\* whose subtree holds the id, however deep the match lies there and however
\* shallow a match under a later host; the context is the tree of the match.
C18_EarlierHostWins ==
    search.op = "byId" =>
        LET direct == {e \in IdPlaces(search.key, search.root) :
                          dom[e].root = search.root}
            hosts  == {h \in Elems :
                          /\ Present(h)
                          /\ dom[h].root = search.root
                          /\ dom[h].shadow = "open"
                          /\ IdPlaces(search.key, h) # {}}
        IN  /\ direct # {} =>
                  /\ search.one.element \in direct
                  /\ search.one.context = search.root
            /\ direct = {} /\ hosts # {} =>
                  \E h \in hosts :
                     /\ \A g \in hosts : h <= g
                     /\ search.one.element \in IdPlaces(search.key, h)
                     /\ search.one.context = dom[search.one.element].root

\* The match returned lies two trees below the first host of the document,
\* while the shadow tree of a later host of the document holds the id itself.
C18_Witness ==
    /\ search.op = "byId"
    /\ search.root = Document
    /\ search.one # Null
    /\ search.one.context # Document
    /\ dom[search.one.context].root # Document
    /\ \E h \in Elems :
          /\ Present(h)
          /\ dom[h].root = Document
          /\ dom[h].shadow = "open"
          /\ HostChain(search.one.element, Document)[1] < h
          /\ \E y \in Elems : Present(y) /\ dom[y].root = h /\ dom[y].id = search.key

\* C19: for a request whose target is found, a customInit that is a function
\* is the one handler invoked, once and on the target, whatever componentType
\* says: nothing of the registry and no built-in runs. A customInit that is
\* no function is never invoked; the callback then does what it does for
\* the same request without customInit, and rejects with the handler
\* configuration error when no componentType is given.
C19_CustomInitPreferred ==
    [][\A r \in Requests :
          FiresNow(r) /\ Candidates(req[r].config) # {} =>
             LET config == req[r].config
             IN  /\ IsFunction(config.customInit) =>
                       \E e \in Candidates(config) :
                          trace'[r].invoked =
                             <<Invocation(config.customInit, e, dom[e].root,
                                          config.options)>>
                 /\ config.customInit = NotAFunction =>
                       /\ \A k \in 1..Len(trace'[r].invoked) :
                             trace'[r].invoked[k].fn # NotAFunction
                       /\ trace'[r] =
                             TimerCallback([config EXCEPT !.customInit = UNDEF])
                       /\ ~Truthy(config.componentType) =>
                             req'[r].promise = Rejected(NoHandlerGiven)]_vars

\* A request gave a customInit function and the name of a type registered
\* with another function: customInit ran, alone, and its value fulfilled
\* the request.
C19_Witness ==
    \E r \in Requests :
        /\ Fired(r)
        /\ req[r].config.customInit = "mkWidget"
        /\ req[r].config.componentType \in DOMAIN registry
        /\ registry[req[r].config.componentType] = "mkBroken"
        /\ Len(trace[r].invoked) = 1
        /\ trace[r].invoked[1].fn = "mkWidget"
        /\ req[r].promise.state = "fulfilled"

\* The spellings of the built-in names among the componentTypes requested.
AccordionSpellings == {"accordion", "Accordion", "flowbite-accordion"}

\* C20: for a request dispatched by componentType whose target is found, the
\* built-in accordion handler runs only when the registry holds no entry
\* under the componentType as it is spelled: a function registered under
\* that very spelling is invoked instead, once, and the built-in is not;
\* without such an entry every spelling of a built-in name, whatever its
\* letter case and whatever is registered under another spelling, gets the
\* built-in handler, whose result fulfils the request.
C20_RegistryBeforeBuiltin ==
    [][\A r \in Requests :
          /\ FiresNow(r)
          /\ ~IsFunction(req[r].config.customInit)
          /\ Truthy(req[r].config.componentType)
          /\ Candidates(req[r].config) # {}
          => LET type == req[r].config.componentType
                 options == req[r].config.options
                 builtin(e) == Invocation("initFlowbiteAccordion", e, dom[e].root,
                                          options)
             IN  /\ (\E k \in 1..Len(trace'[r].invoked) :
                        trace'[r].invoked[k].fn = "initFlowbiteAccordion")
                       => type \notin DOMAIN registry /\ type \in AccordionSpellings
                 /\ type \in DOMAIN registry =>
                       \E e \in Candidates(req[r].config) :
                          trace'[r].invoked =
                             <<Invocation(registry[type], e, dom[e].root, options)>>
                 /\ type \in AccordionSpellings \ DOMAIN registry =>
                       \E e \in Candidates(req[r].config) :
                          /\ trace'[r].invoked = <<builtin(e)>>
                          /\ req'[r].promise =
                                Fulfilled(IF kit.flowbite
                                          THEN Value("instance", "", "flowbite.Accordion",
                                                     e, dom[e].root, options)
                                          ELSE NullValue)]_vars

\* On a page with the Flowbite library, a function is registered under
\* "accordion": the request for "accordion" got that function and not the
\* built-in handler.
C20_Witness ==
    \E r \in Requests :
        /\ Fired(r)
        /\ kit.flowbite
        /\ req[r].config.customInit = UNDEF
        /\ req[r].config.componentType = "accordion"
        /\ "accordion" \in DOMAIN registry
        /\ Len(trace[r].invoked) = 1
        /\ trace[r].invoked[1].fn = registry["accordion"]
        /\ req[r].promise.value.fn = registry["accordion"]

\* C21: the callback of a request runs in one step only, the one in which
\* its timer fires; that step runs one search, on the page as it is then: if
\* the page holds the target then, however late it was attached, the handler
\* runs on it, and if not the request is rejected as not found; a request
\* that has fired is not touched again, whatever is attached afterwards.
C21_LocateOnceAtFireTime ==
    [][\A r \in Requests :
          /\ trace'[r] # trace[r] => FiresNow(r)
          /\ FiresNow(r) /\ TargetGiven(req[r].config) =>
                /\ Len(trace'[r].searched) = 1
                /\ Candidates(req[r].config) # {} =>
                      /\ Len(trace'[r].invoked) = 1
                      /\ trace'[r].invoked[1].element \in Candidates(req[r].config)
                      /\ req'[r].promise.state = "fulfilled"
                /\ Candidates(req[r].config) = {} =>
                      req'[r].promise = Rejected(NotFoundError(req[r].config))
          /\ Fired(r) => req'[r] = req[r] /\ trace'[r] = trace[r]]_vars

\* A request was rejected as not found for its id, and the page now holds,
\* inside a shadow tree, an element with that id: it came too late.
C21_Witness ==
    \E r \in Requests :
        /\ Fired(r)
        /\ req[r].promise = Rejected(NotFoundById("a"))
        /\ Len(trace[r].searched) = 1
        /\ \E e \in IdPlaces("a", Document) : dom[e].root # Document

\* C22: for a request that leaves the handler to componentType and whose
\* target is found, the handler is looked up in the step in which the timer
\* fires: if the last registration before that step put a function under the
\* componentType, during the delay or before the call, that function is the
\* one invoked, once; if nothing is registered under it by then, no function
\* of a caller is invoked; registrations after the firing leave the request
\* and what its callback did as they are.
C22_RegistryReadAtFireTime ==
    [][\A r \in Requests :
          /\ FiresNow(r) /\ Candidates(req[r].config) # {} =>
                LET type == req[r].config.componentType
                IN  /\ (/\ registration.typeName = type
                        /\ IsFunction(registration.initFunction)
                        /\ registration.ended = "returned")
                       => /\ Len(trace'[r].invoked) = 1
                          /\ trace'[r].invoked[1].fn = registration.initFunction
                    /\ type \notin DOMAIN registry =>
                          \A k \in 1..Len(trace'[r].invoked) :
                             trace'[r].invoked[k].fn \notin Fns
          /\ Fired(r) => req'[r] = req[r] /\ trace'[r] = trace[r]]_vars

\* The request ran the handler registered when its timer fired; the function
\* registered under the same name since then has not touched it.
C22_Witness ==
    \E r \in Requests :
        /\ Fired(r)
        /\ req[r].delay = TimeStep
        /\ req[r].config.componentType = "counter"
        /\ Len(trace[r].invoked) = 1
        /\ trace[r].invoked[1].fn = "mkBroken"
        /\ req[r].promise.state = "rejected"
        /\ registry["counter"] = "mkWidget"
        /\ registration.initFunction = "mkWidget"

\* What C23 states of one call of both methods: no element by id exactly when
\* the list is empty, and otherwise the element and context of the first entry.
SearchesAgree ==
    /\ search.one = Null <=> search.all = <<>>
    /\ search.one # Null => search.one = search.all[1]

\* C23 as the specification states it: for every tree, root and id,
\* findElementById(id, root) is null exactly when
\* findElementsBySelector('#' + id, root) is empty, and otherwise its element
\* and context are those of the first entry of the list.
C23_SearchesAgreeForEveryId ==
    search.op = "both" => SearchesAgree

\* C23, amended: the two searches agree for every tree, every root and every
\* id that is a CSS identifier, for which '#' + id is the id selector; for an
\* id such as 'a.b', '#' + id is another selector and the list is empty
\* whether or not findElementById finds an element.
C23_SearchesAgreeOnIdentifiers ==
    search.op = "both" =>
        /\ search.key \in Identifiers => SearchesAgree
        /\ search.key \notin Identifiers => search.all = <<>>

\* Both methods asked from the document for an id that lies in two shadow
\* trees and not in the document: the element by id is the first of the list.
C23_Witness ==
    /\ search.op = "both"
    /\ search.key = "a"
    /\ search.root = Document
    /\ Len(search.all) >= 2
    /\ search.one = search.all[1]
    /\ search.one.context # Document
    /\ search.all[2].context # search.all[1].context

====
